---- MODULE Spec2Model ----
(***************************************************************************)
(* Model of the nativefs addon (src/main.cc): the two entry points Copy    *)
(* and Move, the argument validation of Args, the chunked copy engine      *)
(* Copy(fd_in, fd_out, ...) with doWrite, and the file system calls they   *)
(* make (open, fstat, read, write, fsync, close, remove, rename), each of  *)
(* which may succeed or fail.  One invocation of one entry point is        *)
(* modelled, one step per system call or callback call.                    *)
(***************************************************************************)
EXTENDS Integers, Sequences, FiniteSets, TLC

VARIABLES
    op,               \* entry point invoked: "Copy" or "Move"
    argv,             \* the JavaScript arguments of the call
    pc,               \* position in the code of the entry point
    Source,           \* Args::Source
    Destination,      \* Args::Destination
    UpdateProgress,   \* Args::UpdateProgress
    ResultCallback,   \* Args::ResultCallback holds a function
    ProgressCallback, \* Args::ProgressCallback holds a function
    threw,            \* a TypeError is pending in the isolate
    dir,              \* file system: path -> inode (NoFile when absent)
    data,             \* file system: inode -> content
    fds,              \* descriptor variables in/out: state and inode
    inputSize,        \* st.st_size of the source
    in_dev,           \* in_stats.st_dev
    out_dev,          \* out_stats.st_dev
    removeWhenDone,   \* parameter of the copy engine
    inOff,            \* file offset of fd_in
    outOff,           \* file offset of fd_out
    buffer,           \* bytes of the chunk not yet written (data, datalen)
    bytes_read,       \* result of the last read
    progress,         \* bytes transferred so far
    sinceLastUpdate,  \* bytes transferred since the last notification
    errno,            \* the C errno
    log,              \* every system call and callback call made, in order
    shorts,           \* short reads and short writes the environment produced
    srcLen,           \* length of the source file before the call
    dstDev            \* device of the directory holding path "b"

argVars  == <<op, argv, Source, Destination, UpdateProgress, ResultCallback,
              ProgressCallback, threw>>
fsVars   == <<dir, data>>
statVars == <<inputSize, in_dev, out_dev, removeWhenDone>>
loopVars == <<inOff, outOff, buffer, bytes_read, progress, sinceLastUpdate>>
envVars  == <<shorts, srcLen, dstDev>>
vars     == <<argVars, pc, fsVars, fds, statVars, loopVars, errno, log, envVars>>

(***************************************************************************)
(* Bounds of the model.                                                    *)
(***************************************************************************)
\* small source files have 0..MaxSmall bytes
MaxSmall == 3
\* one large source file, large enough for inputSize / 100 to be positive
BigSize == 200
\* size of the chunk buffer in the model (stands for BUFFER_SIZE bytes)
BufLen == 100
\* short reads and short writes the environment may produce in one call
MaxShort == 2
\* longest short read or short write
ShortLen == 1
\* most arguments of a call
MaxArgc == 4

(***************************************************************************)
(* Values.                                                                 *)
(***************************************************************************)
NoFile == "nofile"
\* inode of the source, of a file already at the destination, of a file
\* created by open(O_CREAT)
SrcIno == "ino_src"
OldIno == "ino_old"
NewIno == "ino_new"
Inodes == {SrcIno, OldIno, NewIno}
Paths  == {"", "a", "b"}
SrcSizes == (0..MaxSmall) \cup {BigSize}

\* content of the source: n distinct bytes, so that a lost, repeated or
\* reordered byte shows
Content(n) == [i \in 1..n |-> i]
\* content of a file already at the destination
OldContent == <<0, 0>>

Min(a, b) == IF a < b THEN a ELSE b

\* device of a path's directory: "a" is on device 1, "b" on dstDev
PathDev(p) == IF p = "b" THEN dstDev ELSE 1
\* st_dev of an inode
DevOf(i) ==
    IF i = SrcIno THEN 1
    ELSE IF i = OldIno THEN dstDev
    ELSE PathDev(Destination)

\* JavaScript values: the strings "a" and "b", a function, a number
IsString(v)   == v \in {"a", "b"}
IsFunction(v) == v = "fn"

\* get(value), main.cc:67
get(v) == IF IsString(v) THEN v ELSE ""

\* strerror(errno)
strerror(e) ==
    CASE e = "OK"     -> "Success"
      [] e = "ENOENT" -> "No such file or directory"
      [] e = "EACCES" -> "Permission denied"
      [] e = "EIO"    -> "Input/output error"
      [] e = "ENOSPC" -> "No space left on device"
      [] e = "EINTR"  -> "Interrupted system call"
      [] e = "EBUSY"  -> "Device or resource busy"

Ev(tag, x, y) == <<tag, x, y>>
Logged(e) == log' = Append(log, e)

(***************************************************************************)
(* Initial states: the call about to be made, and the file system.         *)
(***************************************************************************)
\* argument lists: the first is the path "a" or a number; the second may
\* also be the path "b"; the third and later are a function or a number
ArgValues(i) ==
    IF i = 1 THEN {"a", "num"}
    ELSE IF i = 2 THEN {"a", "b", "num"}
    ELSE {"fn", "num"}
ArgLists ==
    UNION {{s \in [1..n -> {"a", "b", "fn", "num"}] :
               \A i \in 1..n : s[i] \in ArgValues(i)} : n \in 0..MaxArgc}

Init ==
    /\ op \in {"Copy", "Move"}
    /\ argv \in ArgLists
    /\ pc = "args"
    /\ Source = "" /\ Destination = ""
    /\ UpdateProgress = FALSE /\ ResultCallback = FALSE
    /\ ProgressCallback = FALSE /\ threw = FALSE
    /\ srcLen \in SrcSizes
    /\ dstDev \in {1, 2}
    /\ \E srcExists \in BOOLEAN, dst \in {"absent", "file", "link"} :
        /\ dst = "link" => (srcExists /\ dstDev = 1)
        /\ ~srcExists => srcLen = 0
        /\ dir = [p \in Paths |->
                    IF p = "a" THEN (IF srcExists THEN SrcIno ELSE NoFile)
                    ELSE IF p = "b" THEN
                        (CASE dst = "absent" -> NoFile
                           [] dst = "file"   -> OldIno
                           [] dst = "link"   -> SrcIno)
                    ELSE NoFile]
    /\ data = [i \in Inodes |->
                 IF i = SrcIno THEN Content(srcLen)
                 ELSE IF i = OldIno THEN OldContent ELSE <<>>]
    /\ fds = [f \in {"in", "out"} |-> [state |-> "none", ino |-> NoFile]]
    /\ inputSize = 0 /\ in_dev = 0 /\ out_dev = 0 /\ removeWhenDone = FALSE
    /\ inOff = 0 /\ outOff = 0 /\ buffer = <<>> /\ bytes_read = 0
    /\ progress = 0 /\ sinceLastUpdate = 0
    /\ errno = "OK"
    /\ log = <<>>
    /\ shorts = 0

(***************************************************************************)
(* System calls.  Each takes the outcome chosen by the environment.        *)
(***************************************************************************)
\* close(fd): the descriptor is released whether or not close reports an
\* error
SysClose(f, ok) ==
    /\ fds' = [fds EXCEPT ![f].state = "closed"]
    /\ errno' = IF ok THEN errno ELSE "EINTR"
    /\ Logged(Ev("close", f, 0))

\* remove(path): succeeds only on a path that exists
RemoveOutcomes(p) == IF dir[p] = NoFile THEN {FALSE} ELSE {TRUE, FALSE}
SysRemove(p, ok) ==
    /\ dir' = IF ok THEN [dir EXCEPT ![p] = NoFile] ELSE dir
    /\ errno' = IF ok THEN errno
                ELSE IF dir[p] = NoFile THEN "ENOENT" ELSE "EBUSY"
    /\ Logged(Ev("remove", p, ok))

\* rename(old, new): fails when old is absent; does nothing when both name
\* the same file; replaces new otherwise
RenameOutcomes(old) == IF dir[old] = NoFile THEN {FALSE} ELSE {TRUE, FALSE}
SysRename(old, new, ok) ==
    /\ dir' = IF ok /\ dir[old] # dir[new]
              THEN [dir EXCEPT ![new] = dir[old], ![old] = NoFile]
              ELSE dir
    /\ errno' = IF ok THEN errno
                ELSE IF dir[old] = NoFile THEN "ENOENT" ELSE "EACCES"
    /\ Logged(Ev("rename", ok, 0))

\* bytes of a file after write(fd, bytes) at offset off
WriteAt(old, off, bytes) ==
    SubSeq(old, 1, off) \o bytes \o SubSeq(old, off + Len(bytes) + 1, Len(old))

(***************************************************************************)
(* Callbacks.                                                              *)
(***************************************************************************)
\* SendProgressUpdate with a bug: the two numbers are passed in the
\* other order
SendProgressUpdate_Swapped(completed, total) ==
    IF UpdateProgress
    THEN Logged(Ev("progress", total, completed))
    ELSE UNCHANGED log

\* SendProgressUpdate(args, completed, total), main.cc:160-175
SendProgressUpdate(completed, total) ==
    IF UpdateProgress
    THEN Logged(Ev("progress", completed, total))
    ELSE UNCHANGED log

\* ResultCallback->Call(...): a call through an empty handle is undefined;
\* the process crashes or the call has no effect
CallResult(err, flag) ==
    IF ResultCallback
    THEN /\ Logged(Ev("complete", err, flag))
         /\ pc' = "done"
    ELSE /\ UNCHANGED log
         /\ pc' \in {"crashed", "done"}

\* SendComplete(args), main.cc:177-180
SendComplete == CallResult("null", TRUE)

\* SendError with a bug: the error is reported and the success too
SendError_AlsoCompletes(errorText) ==
    /\ log' = log \o <<Ev("complete", errorText, FALSE), Ev("complete", "null", TRUE)>>
    /\ pc' = "done"

\* SendError(args, errorText), main.cc:182-188
SendError(errorText) == CallResult(errorText, FALSE)

(***************************************************************************)
(* Args::Args, main.cc:120-155.                                            *)
(***************************************************************************)
\* the text of the TypeError thrown, "" when the arguments are accepted
ArgsError(a) ==
    IF Len(a) < 3 THEN "Not enough arguments"
    ELSE IF ~IsString(a[1]) THEN "First argument is not a path"
    ELSE IF ~IsString(a[2]) THEN "Second argument is not a path"
    ELSE IF ~IsFunction(a[3]) THEN "Missing result callback"
    ELSE IF Len(a) > 3 /\ ~IsFunction(a[4]) THEN "Unknown arguments"
    ELSE ""

ValidArgs == ArgsError(argv) = ""

\* The constructor returns early after ThrowError: the members keep their
\* default values (empty strings, empty handles) and the bool
\* UpdateProgress is never written, so its value is indeterminate.  The
\* entry point goes on to its body in both cases.
ArgsCtor ==
    /\ pc = "args"
    /\ pc' = "open_in"
    /\ IF ArgsError(argv) # ""
       THEN /\ threw' = TRUE
            /\ Logged(Ev("throw", ArgsError(argv), 0))
            /\ UpdateProgress' \in BOOLEAN
            /\ UNCHANGED <<Source, Destination, ResultCallback, ProgressCallback>>
       ELSE /\ UpdateProgress' = (Len(argv) > 3)
            /\ Source' = get(argv[1])
            /\ Destination' = get(argv[2])
            /\ ProgressCallback' = (Len(argv) > 3)
            /\ ResultCallback' = TRUE
            /\ UNCHANGED <<threw, log>>
    /\ UNCHANGED <<op, argv, fsVars, fds, statVars, loopVars, errno, envVars>>

(***************************************************************************)
(* Copy(const FunctionCallbackInfo&), main.cc:252-280, and Move,           *)
(* main.cc:282-339: open the source, fstat it, open the destination.       *)
(***************************************************************************)
\* in = open(args.Source, O_RDONLY | O_BINARY)
OpenInOutcomes == IF dir[Source] = NoFile THEN {FALSE} ELSE {TRUE, FALSE}
OpenIn ==
    /\ pc = "open_in"
    /\ \E ok \in OpenInOutcomes :
        /\ Logged(Ev("open", "in", ok))
        /\ IF ok
           THEN /\ fds' = [fds EXCEPT !["in"] = [state |-> "open", ino |-> dir[Source]]]
                /\ pc' = "fstat_in"
                /\ UNCHANGED errno
           ELSE /\ errno' = IF dir[Source] = NoFile THEN "ENOENT" ELSE "EACCES"
                /\ pc' = "path_error"
                /\ UNCHANGED fds
    /\ inOff' = 0
    /\ UNCHANGED <<argVars, fsVars, statVars, outOff, buffer, bytes_read,
                   progress, sinceLastUpdate, envVars>>

\* fstat(in, &st)
FstatIn ==
    /\ pc = "fstat_in"
    /\ \E ok \in BOOLEAN :
        /\ Logged(Ev("fstat", "in", ok))
        /\ IF ok
           THEN /\ inputSize' = Len(data[fds["in"].ino])
                /\ in_dev' = DevOf(fds["in"].ino)
                /\ pc' = "open_out"
                /\ UNCHANGED errno
           ELSE /\ errno' = "EIO"
                /\ pc' = "fstat_in_close"
                /\ UNCHANGED <<inputSize, in_dev>>
    /\ UNCHANGED <<argVars, fsVars, fds, out_dev, removeWhenDone, loopVars, envVars>>

\* close(in) of a step whose pc is `at`, going on to `next`
Close(at, f, next) ==
    /\ pc = at
    /\ \E ok \in BOOLEAN : SysClose(f, ok)
    /\ pc' = next
    /\ UNCHANGED <<argVars, fsVars, statVars, loopVars, envVars>>

\* main.cc:262 and 292
FstatInClose == Close("fstat_in_close", "in", "path_error")

\* out = open(args.Destination, O_WRONLY | O_CREAT | O_TRUNC | O_BINARY, mode):
\* an existing file is truncated, a missing one is created; the empty path
\* names nothing
OpenOutOutcomes == IF Destination = "" THEN {FALSE} ELSE {TRUE, FALSE}
OpenOutIno == IF dir[Destination] = NoFile THEN NewIno ELSE dir[Destination]
OpenOut ==
    /\ pc = "open_out"
    /\ \E ok \in OpenOutOutcomes :
        /\ Logged(Ev("open", "out", ok))
        /\ IF ok
           THEN /\ fds' = [fds EXCEPT !["out"] = [state |-> "open", ino |-> OpenOutIno]]
                /\ dir' = [dir EXCEPT ![Destination] = OpenOutIno]
                /\ data' = [data EXCEPT ![OpenOutIno] = <<>>]
                /\ pc' = IF op = "Copy" THEN "read" ELSE "fstat_out"
                /\ UNCHANGED errno
           ELSE /\ errno' = IF Destination = "" THEN "ENOENT" ELSE "EACCES"
                /\ pc' = "open_out_close"
                /\ UNCHANGED <<fds, dir, data>>
    /\ outOff' = 0
    /\ UNCHANGED <<argVars, statVars, inOff, buffer, bytes_read, progress,
                   sinceLastUpdate, envVars>>

\* main.cc:269 and 299
OpenOutClose == Close("open_out_close", "in", "path_error")

\* copyByPathError / moveError: remove(args.Destination), main.cc:277 and 336
PathErrorRemove ==
    /\ pc = "path_error"
    /\ \E ok \in RemoveOutcomes(Destination) : SysRemove(Destination, ok)
    /\ pc' = "path_send_error"
    /\ UNCHANGED <<argVars, data, fds, statVars, loopVars, envVars>>

\* SendError(args, strerror(errno)), main.cc:278 and 337
PathSendError ==
    /\ pc = "path_send_error"
    /\ SendError(strerror(errno))
    /\ UNCHANGED <<argVars, fsVars, fds, statVars, loopVars, errno, envVars>>

(***************************************************************************)
(* Move, main.cc:303-331: fstat the destination and choose the strategy.   *)
(***************************************************************************)
\* fstat(out, &out_stats), then the branch on in_stats.st_dev == out_stats.st_dev
FstatOut ==
    /\ pc = "fstat_out"
    /\ \E ok \in BOOLEAN :
        /\ Logged(Ev("fstat", "out", ok))
        /\ IF ok
           THEN /\ out_dev' = DevOf(fds["out"].ino)
                /\ IF in_dev = out_dev'
                   THEN pc' = "mv_close_in" /\ UNCHANGED removeWhenDone
                   ELSE pc' = "read" /\ removeWhenDone' = TRUE
                /\ UNCHANGED errno
           ELSE /\ errno' = "EIO"
                /\ pc' = "fstat_out_close_in"
                /\ UNCHANGED <<out_dev, removeWhenDone>>
    /\ UNCHANGED <<argVars, fsVars, fds, inputSize, in_dev, loopVars, envVars>>

\* the close of the destination with a bug: close(out) is forgotten
FstatOutCloseOut_Leak ==
    /\ pc = "fstat_out_close_out"
    /\ pc' = "path_error"
    /\ UNCHANGED <<argVars, fsVars, fds, statVars, loopVars, errno, log, envVars>>

\* main.cc:307-308
FstatOutCloseIn  == Close("fstat_out_close_in", "in", "fstat_out_close_out")
FstatOutCloseOut == Close("fstat_out_close_out", "out", "path_error")

\* the same-device path with a bug: the destination is not removed before
\* the rename
MoveCloseOut_NoRemove == Close("mv_close_out", "out", "mv_rename")

\* same device, main.cc:315-316
MoveCloseIn  == Close("mv_close_in", "in", "mv_close_out")
MoveCloseOut == Close("mv_close_out", "out", "mv_remove")

\* remove(args.Destination), main.cc:320; the result is not looked at
MoveRemove ==
    /\ pc = "mv_remove"
    /\ \E ok \in RemoveOutcomes(Destination) : SysRemove(Destination, ok)
    /\ pc' = "mv_rename"
    /\ UNCHANGED <<argVars, data, fds, statVars, loopVars, envVars>>

\* rename(args.Source, args.Destination), main.cc:321; the result is not
\* looked at
MoveRename ==
    /\ pc = "mv_rename"
    /\ \E ok \in RenameOutcomes(Source) : SysRename(Source, Destination, ok)
    /\ pc' = "mv_progress"
    /\ UNCHANGED <<argVars, data, fds, statVars, loopVars, envVars>>

\* SendProgressUpdate(args, inputSize, inputSize), main.cc:323
MoveProgress ==
    /\ pc = "mv_progress"
    /\ SendProgressUpdate(inputSize, inputSize)
    /\ pc' = "mv_complete"
    /\ UNCHANGED <<argVars, fsVars, fds, statVars, loopVars, errno, envVars>>

\* SendComplete(args), main.cc:324
MoveComplete ==
    /\ pc = "mv_complete"
    /\ SendComplete
    /\ UNCHANGED <<argVars, fsVars, fds, statVars, loopVars, errno, envVars>>

(***************************************************************************)
(* The copy engine, Copy(fd_in, fd_out, inputSize, args, removeWhenDone),  *)
(* main.cc:199-250, and doWrite, main.cc:190-197.                          *)
(***************************************************************************)
\* bytes the source still holds past the offset of fd_in
Avail == IF Len(data[fds["in"].ino]) > inOff
         THEN Len(data[fds["in"].ino]) - inOff ELSE 0

\* results of read(fd_in, buffer, sizeof(buffer)): an error, the bytes that
\* fit the buffer, or fewer (a short read)
ReadResults ==
    {-1, Min(BufLen, Avail)}
        \cup {k \in 1..ShortLen : k < Min(BufLen, Avail) /\ shorts < MaxShort}

\* while ((bytes_read = read(...)) > 0), and the test after the loop,
\* main.cc:212 and 226
Read ==
    /\ pc = "read"
    /\ \E r \in ReadResults :
        /\ bytes_read' = r
        /\ Logged(Ev("read", r, 0))
        /\ IF r > 0
           THEN /\ buffer' = SubSeq(data[fds["in"].ino], inOff + 1, inOff + r)
                /\ inOff' = inOff + r
                /\ shorts' = IF r < Min(BufLen, Avail) THEN shorts + 1 ELSE shorts
                /\ pc' = "write"
                /\ UNCHANGED errno
           ELSE /\ errno' = IF r = -1 THEN "EIO" ELSE errno
                /\ pc' = IF r = -1 THEN "err_close_in" ELSE "final_progress"
                /\ UNCHANGED <<buffer, inOff, shorts>>
    /\ UNCHANGED <<argVars, fsVars, fds, statVars, outOff, progress,
                   sinceLastUpdate, srcLen, dstDev>>

\* results of write(fd, data, datalen): an error, all the bytes, or fewer
\* (a short write, possibly of no byte)
WriteResults(datalen) ==
    {-1, datalen}
        \cup {k \in 0..ShortLen : k < datalen /\ shorts < MaxShort}

\* doWrite with a bug: the recursive call passes data, not data + written
doWriteRest_NoAdvance(buf, written) == SubSeq(buf, 1, Len(buf) - written)

\* what doWrite passes to its recursive call after `written` bytes:
\* data + written, datalen - written
doWriteRest(buf, written) == SubSeq(buf, written + 1, Len(buf))

\* one write call of doWrite; a short write recurses on the rest
doWrite ==
    /\ pc = "write"
    /\ \E written \in WriteResults(Len(buffer)) :
        /\ Logged(Ev("write", written, 0))
        /\ IF written = -1
           THEN /\ errno' = "ENOSPC"
                /\ pc' = "err_close_in"
                /\ UNCHANGED <<data, outOff, buffer, shorts>>
           ELSE /\ data' = [data EXCEPT ![fds["out"].ino] =
                               WriteAt(@, outOff, SubSeq(buffer, 1, written))]
                /\ outOff' = outOff + written
                /\ buffer' = doWriteRest(buffer, written)
                /\ shorts' = IF written < Len(buffer) THEN shorts + 1 ELSE shorts
                /\ pc' = IF written < Len(buffer) THEN "write" ELSE "account"
                /\ UNCHANGED errno
    /\ UNCHANGED <<argVars, dir, fds, statVars, inOff, bytes_read, progress,
                   sinceLastUpdate, srcLen, dstDev>>

\* const ssize_t bytesPerUpdate = inputSize / 100, main.cc:206
bytesPerUpdate == inputSize \div 100

\* the test with a bug: a notification is due at the threshold already
UpdateDue_AtThreshold(since) == since >= bytesPerUpdate

\* the test of main.cc:220
UpdateDue(since) == since > bytesPerUpdate

\* progress += bytes_read ... sinceLastUpdate = 0, main.cc:217-223
Account ==
    /\ pc = "account"
    /\ progress' = progress + bytes_read
    /\ IF UpdateDue(sinceLastUpdate + bytes_read)
       THEN /\ SendProgressUpdate(progress', inputSize)
            /\ sinceLastUpdate' = 0
       ELSE /\ sinceLastUpdate' = sinceLastUpdate + bytes_read
            /\ UNCHANGED log
    /\ pc' = "read"
    /\ UNCHANGED <<argVars, fsVars, fds, statVars, inOff, outOff, buffer,
                   bytes_read, errno, envVars>>

\* the last update with a bug: it is sent only when bytes were written
\* since the last notification
FinalProgress_Throttled ==
    /\ pc = "final_progress"
    /\ IF sinceLastUpdate > 0
       THEN SendProgressUpdate(inputSize, inputSize)
       ELSE UNCHANGED log
    /\ pc' = "ok_close_in"
    /\ UNCHANGED <<argVars, fsVars, fds, statVars, loopVars, errno, envVars>>

\* send one last progress update, main.cc:229
FinalProgress ==
    /\ pc = "final_progress"
    /\ SendProgressUpdate(inputSize, inputSize)
    /\ pc' = "ok_close_in"
    /\ UNCHANGED <<argVars, fsVars, fds, statVars, loopVars, errno, envVars>>

\* the success path with a bug: the output is closed without fsync
CopyCloseIn_NoFsync == Close("ok_close_in", "in", "ok_close_out")

\* close(fd_in), main.cc:231
CopyCloseIn == Close("ok_close_in", "in", "fsync")

\* fsync(fd_out), main.cc:233; the result is not looked at
Fsync ==
    /\ pc = "fsync"
    /\ \E ok \in BOOLEAN :
        /\ Logged(Ev("fsync", "out", 0))
        /\ errno' = IF ok THEN errno ELSE "EIO"
    /\ pc' = "ok_close_out"
    /\ UNCHANGED <<argVars, fsVars, fds, statVars, loopVars, envVars>>

\* where the success path goes after close(fd_out), main.cc:236
AfterCloseOut == IF removeWhenDone THEN "remove_src" ELSE "send_complete"

\* close(fd_out), main.cc:234
CopyCloseOut == Close("ok_close_out", "out", AfterCloseOut)

\* remove(args.Source), main.cc:237; the result is not looked at
RemoveSource ==
    /\ pc = "remove_src"
    /\ \E ok \in RemoveOutcomes(Source) : SysRemove(Source, ok)
    /\ pc' = "send_complete"
    /\ UNCHANGED <<argVars, data, fds, statVars, loopVars, envVars>>

\* the success path with a bug: the completion is left to be delivered
\* later and the entry point returns without it
CopyComplete_Deferred ==
    /\ pc = "send_complete"
    /\ pc' = "done"
    /\ UNCHANGED <<argVars, fsVars, fds, statVars, loopVars, errno, log, envVars>>

\* SendComplete(args), main.cc:240
CopyComplete ==
    /\ pc = "send_complete"
    /\ SendComplete
    /\ UNCHANGED <<argVars, fsVars, fds, statVars, loopVars, errno, envVars>>

\* copyByFdError: close(fd_in); close(fd_out), main.cc:244-245
ErrorCloseIn  == Close("err_close_in", "in", "err_close_out")
ErrorCloseOut == Close("err_close_out", "out", "err_remove")

\* copyByFdError with a bug: the failed copy is not removed
ErrorRemove_Skipped ==
    /\ pc = "err_remove"
    /\ pc' = "err_send_error"
    /\ UNCHANGED <<argVars, fsVars, fds, statVars, loopVars, errno, log, envVars>>

\* remove(args.Destination), main.cc:247
ErrorRemove ==
    /\ pc = "err_remove"
    /\ \E ok \in RemoveOutcomes(Destination) : SysRemove(Destination, ok)
    /\ pc' = "err_send_error"
    /\ UNCHANGED <<argVars, data, fds, statVars, loopVars, envVars>>

\* SendError(args, strerror(errno)), main.cc:248
CopySendError ==
    /\ pc = "err_send_error"
    /\ SendError(strerror(errno))
    /\ UNCHANGED <<argVars, fsVars, fds, statVars, loopVars, errno, envVars>>

\* the entry point returns to its caller, main.cc:274, 279, 333, 338
Return ==
    /\ pc = "done"
    /\ pc' = "returned"
    /\ Logged(Ev("return", 0, 0))
    /\ UNCHANGED <<argVars, fsVars, fds, statVars, loopVars, errno, envVars>>

Next ==
    \/ ArgsCtor
    \/ OpenIn
    \/ FstatIn
    \/ FstatInClose
    \/ OpenOut
    \/ OpenOutClose
    \/ PathErrorRemove
    \/ PathSendError
    \/ FstatOut
    \/ FstatOutCloseIn
    \/ FstatOutCloseOut
    \/ MoveCloseIn
    \/ MoveCloseOut
    \/ MoveRemove
    \/ MoveRename
    \/ MoveProgress
    \/ MoveComplete
    \/ Read
    \/ doWrite
    \/ Account
    \/ FinalProgress
    \/ CopyCloseIn
    \/ Fsync
    \/ CopyCloseOut
    \/ RemoveSource
    \/ CopyComplete
    \/ ErrorCloseIn
    \/ ErrorCloseOut
    \/ ErrorRemove
    \/ CopySendError
    \/ Return

Spec == Init /\ [][Next]_vars

(***************************************************************************)
(* Reading the log.                                                        *)
(***************************************************************************)
Finished == pc \in {"done", "returned"}

Idx(tag) == {i \in DOMAIN log : log[i][1] = tag}
Completions == Idx("complete")
Progresses  == Idx("progress")

IsSuccess(e) == e[1] = "complete" /\ e[2] = "null" /\ e[3] = TRUE
IsFailure(e) == e[1] = "complete" /\ e[2] # "null" /\ e[3] = FALSE

Succeeded == \E i \in Completions : IsSuccess(log[i])
Failed    == \E i \in Completions : IsFailure(log[i])

OpenIdx(f)  == {i \in Idx("open") : log[i][2] = f /\ log[i][3] = TRUE}
CloseIdx(f) == {i \in Idx("close") : log[i][2] = f}

\* a read or a write of the copy loop returned an error
ReadFailed  == \E i \in Idx("read") : log[i][2] = -1
WriteFailed == \E i \in Idx("write") : log[i][2] = -1

\* remove(p) was called / succeeded
RemoveIdx(p)  == {i \in Idx("remove") : log[i][2] = p}
Removed(p)    == \E i \in RemoveIdx(p) : log[i][3] = TRUE

C2_DescriptorsClosedOnce ==
    \A f \in {"in", "out"} :
        /\ Cardinality(CloseIdx(f)) <= 1
        /\ \A i \in CloseIdx(f) : \E j \in OpenIdx(f) : j < i
        /\ fds[f].state = "open" <=> (OpenIdx(f) # {} /\ CloseIdx(f) = {})
        /\ \A c \in Completions :
              \A j \in OpenIdx(f) : \E i \in CloseIdx(f) : j < i /\ i < c
        /\ pc \in {"done", "returned", "crashed"} => fds[f].state # "open"

\* a Move whose fstat of the destination failed: both descriptors were
\* open, and the call has returned
C2_Witness ==
    /\ pc = "returned" /\ op = "Move"
    /\ \E i \in Idx("fstat") : log[i][2] = "out" /\ log[i][3] = FALSE
    /\ fds["in"].state = "closed" /\ fds["out"].state = "closed"

(***************************************************************************)
(* C3: when the source and the destination are different files, what the   *)
(* copy loop has written is at every moment what it has read, in order     *)
(* (the destination followed by the unwritten rest of the chunk is the     *)
(* prefix of the source up to the read offset), and after a Copy that      *)
(* completed with (null, true) the file at the destination path holds the  *)
(* bytes the source holds.                                                 *)
(***************************************************************************)
DifferentFiles ==
    /\ fds["in"].state # "none" /\ fds["out"].state # "none"
    /\ fds["in"].ino # fds["out"].ino

C3_CopyIsByteIdentical ==
    (ValidArgs /\ DifferentFiles) =>
        /\ pc = "write" =>
              data[fds["out"].ino] \o buffer = SubSeq(Content(srcLen), 1, inOff)
        /\ pc \in {"read", "account"} =>
              data[fds["out"].ino] = SubSeq(Content(srcLen), 1, inOff)
        /\ (op = "Copy" /\ Succeeded) =>
              /\ dir[Destination] = fds["out"].ino
              /\ data[dir[Destination]] = Content(srcLen)
              /\ data[dir[Destination]] = data[dir[Source]]

\* a Copy of the large file that met a short read and a short write of a
\* chunk of more than one buffer, and completed with success
C3_Witness ==
    /\ op = "Copy" /\ Succeeded /\ DifferentFiles /\ srcLen = BigSize
    /\ \E i \in Idx("read") : log[i][2] > 0 /\ log[i][2] <= ShortLen
    /\ \E i \in Idx("write") : log[i][2] > 0 /\ log[i][2] <= ShortLen
    /\ \E i \in Idx("write") : log[i][2] > ShortLen

(***************************************************************************)
(* C4 as stated: after a read error or a write error of the copy loop,     *)
(* once the call is finished the destination path does not exist and the   *)
(* completion is a failure.                                                *)
(***************************************************************************)
LoopFailed == ValidArgs /\ (ReadFailed \/ WriteFailed)

CrossDeviceMove == ValidArgs /\ op = "Move" /\ removeWhenDone

C5_SourceDeletedIffCopied ==
    (CrossDeviceMove /\ Finished) =>
        /\ Succeeded => dir[Source] = NoFile
        /\ (ReadFailed \/ WriteFailed) =>
              /\ RemoveIdx(Source) = {}
              /\ dir[Source] = SrcIno
              /\ data[SrcIno] = Content(srcLen)

(***************************************************************************)
(* C6: when rename fails on the same-device path of Move, the completion   *)
(* delivered is a failure carrying the text of the error of rename, and    *)
(* not (null, true).                                                       *)
(***************************************************************************)
RenameFailed == \E i \in Idx("rename") : log[i][2] = FALSE

C6_RenameFailureReported ==
    (ValidArgs /\ RenameFailed /\ Finished) =>
        /\ ~Succeeded
        /\ \E i \in Completions :
              IsFailure(log[i]) /\ log[i][2] \in {strerror("ENOENT"), strerror("EACCES")}

(***************************************************************************)
(* C7: when rename fails on the same-device path of Move, the source path  *)
(* still names the original source file and its content is unchanged,      *)
(* also when the two paths name the same file.                             *)
(***************************************************************************)
C7_FailedRenameKeepsSource ==
    (ValidArgs /\ RenameFailed) =>
        /\ dir[Source] = SrcIno
        /\ data[SrcIno] = Content(srcLen)

(***************************************************************************)
(* C8: with invalid arguments the call throws the argument error and does  *)
(* nothing else: no open, fstat, remove or rename is attempted, no         *)
(* descriptor is opened, no callback is called.                            *)
(***************************************************************************)
C8_InvalidArgsTouchNothing ==
    ~ValidArgs =>
        /\ pc # "args" => threw
        /\ Idx("open") = {} /\ Idx("fstat") = {}
        /\ Idx("remove") = {} /\ Idx("rename") = {}
        /\ \A f \in {"in", "out"} : fds[f].state = "none"
        /\ Completions = {} /\ Progresses = {}
        /\ pc # "crashed"

(***************************************************************************)
(* C9: with a progress callback, the `done` values of the notifications    *)
(* never decrease and never exceed `total`, `total` is in every            *)
(* notification the size of the source, and when the call succeeds the     *)
(* last notification is (total, total).                                    *)
(***************************************************************************)
LastProgress == CHOOSE i \in Progresses : \A j \in Progresses : j <= i

C9_ProgressMonotone ==
    (ValidArgs /\ UpdateProgress) =>
        /\ \A i, j \in Progresses : i < j => log[i][2] <= log[j][2]
        /\ \A i \in Progresses : log[i][2] <= log[i][3] /\ log[i][3] = srcLen
        /\ Succeeded =>
              /\ Progresses # {}
              /\ \A c \in Completions : LastProgress < c
              /\ log[LastProgress] = Ev("progress", srcLen, srcLen)

\* a successful transfer of the large file with notifications inside the
\* loop, at least one chunk that produced no notification, and the final one
C9_Witness ==
    /\ ValidArgs /\ UpdateProgress /\ Succeeded /\ srcLen = BigSize
    /\ \E i \in Progresses : log[i][2] > 0 /\ log[i][2] < log[i][3]
    /\ Cardinality(Progresses) >= 3
    /\ Cardinality(Progresses) <= Cardinality({i \in Idx("read") : log[i][2] > 0})

(***************************************************************************)
(* C10: a same-device Move.                                                *)
(***************************************************************************)
\* the fstat of the destination succeeded and reported the device of the
\* source
SameDeviceMove ==
    /\ ValidArgs /\ op = "Move" /\ in_dev = out_dev
    /\ \E i \in Idx("fstat") : log[i][2] = "out" /\ log[i][3] = TRUE

\* the calls made after the fstat of the destination
AfterFstatOut ==
    LET k == CHOOSE i \in Idx("fstat") : log[i][2] = "out"
    IN  SubSeq(log, k + 1, Len(log))

Kind(e) ==
    IF e[1] = "close" THEN (IF e[2] = "in" THEN "close_in" ELSE "close_out")
    ELSE e[1]
Kinds(s) == [i \in 1..Len(s) |-> Kind(s[i])]
IsPrefix(s, t) == Len(s) <= Len(t) /\ s = SubSeq(t, 1, Len(s))

RenameSteps(withProgress) ==
    <<"close_in", "close_out", "remove", "rename">>
        \o (IF withProgress THEN <<"progress">> ELSE <<>>)
        \o <<"complete", "return">>

SameDeviceMoveSteps(withProgress) ==
    SameDeviceMove =>
        /\ Idx("read") = {} /\ Idx("write") = {}
        /\ IsPrefix(Kinds(AfterFstatOut), RenameSteps(withProgress))
        /\ pc = "returned" => Kinds(AfterFstatOut) = RenameSteps(withProgress)
        /\ \A i \in Idx("remove") : log[i][2] = Destination
        /\ \A i \in Progresses : log[i] = Ev("progress", srcLen, srcLen)
        /\ \A i \in Completions : IsSuccess(log[i])

(***************************************************************************)
(* C10 as stated: a same-device Move reads and writes no file data and     *)
(* makes exactly these calls, in this order: close of both descriptors,    *)
(* remove of the destination, rename, one progress notification            *)
(* (size, size), the completion (null, true).                              *)
(***************************************************************************)
C10_Original == SameDeviceMoveSteps(TRUE)

(***************************************************************************)
(* C10 as amended: a same-device Move reads and writes no file data and    *)
(* makes exactly these calls, in this order: close of both descriptors,    *)
(* remove of the destination, rename, one progress notification            *)
(* (size, size) when a progress callback was given and none otherwise,     *)
(* the completion (null, true).                                            *)
(***************************************************************************)
C10_SameDeviceMoveSteps == SameDeviceMoveSteps(UpdateProgress)

\* a same-device Move of the large file to another path, with a progress
\* callback, that has returned
C10_Witness ==
    /\ SameDeviceMove /\ pc = "returned" /\ UpdateProgress
    /\ srcLen = BigSize /\ Destination = "b"
    /\ Progresses # {} /\ ~RenameFailed

(***************************************************************************)
(* C11: when Copy or Move fails before the destination was opened (the     *)
(* open or the fstat of the source failed), nothing at the destination     *)
(* path is removed: a file that was there stays, with its content.         *)
(***************************************************************************)
DestinationNeverOpened == \A i \in Idx("open") : log[i][2] # "out"

C11_UnopenedDestinationKept ==
    (ValidArgs /\ DestinationNeverOpened) =>
        /\ ~Removed(Destination)
        /\ dir["b"] # NewIno
        /\ data[OldIno] = OldContent

(***************************************************************************)
(* C12: the text of a failure completion is strerror of the error of the   *)
(* call that caused the failure (the first open, fstat, read or write that *)
(* failed), whatever close and remove do afterwards.  (For a failed open   *)
(* the formula accepts either text open can produce.)                      *)
(***************************************************************************)
IsCause(e) ==
    \/ e[1] \in {"open", "fstat"} /\ e[3] = FALSE
    \/ e[1] \in {"read", "write"} /\ e[2] = -1
CauseIdx == {i \in DOMAIN log : IsCause(log[i])}
FirstCause == CHOOSE i \in CauseIdx : \A j \in CauseIdx : i <= j
CauseTexts(e) ==
    CASE e[1] = "open"  -> {strerror("ENOENT"), strerror("EACCES")}
      [] e[1] = "fstat" -> {strerror("EIO")}
      [] e[1] = "read"  -> {strerror("EIO")}
      [] e[1] = "write" -> {strerror("ENOSPC")}

C12_ErrorTextOfFailingCall ==
    ValidArgs =>
        \A c \in Completions :
            IsFailure(log[c]) =>
                /\ CauseIdx # {}
                /\ log[c][2] \in CauseTexts(log[FirstCause])

(***************************************************************************)
(* C13 as stated: the entry point returns before the completion callback   *)
(* and before every progress callback of the invocation.                   *)
(***************************************************************************)
Returns == Idx("return")

EndOfInput == {i \in Idx("read") : log[i][2] = 0}
EngineSucceeds == ValidArgs /\ EndOfInput # {}

AfterEndOfInput ==
    LET k == CHOOSE i \in EndOfInput : TRUE
    IN  SubSeq(log, k + 1, Len(log))

SuccessSteps ==
    (IF UpdateProgress THEN <<"progress">> ELSE <<>>)
        \o <<"close_in", "fsync", "close_out">>
        \o (IF removeWhenDone THEN <<"remove">> ELSE <<>>)
        \o <<"complete", "return">>

SourceOpened == ValidArgs /\ fds["in"].state # "none"

C18_CopyKeepsSource ==
    (SourceOpened /\ op = "Copy") =>
        /\ dir[Source] = SrcIno
        /\ data[SrcIno] = Content(srcLen)

(***************************************************************************)
(* C19: at every moment of a Move of an existing source, the source path   *)
(* or the destination path names a file that holds the complete original   *)
(* content of the source.                                                  *)
(***************************************************************************)
HoldsOriginal(p) == dir[p] # NoFile /\ data[dir[p]] = Content(srcLen)

C19_NeverMissingFromBoth ==
    (SourceOpened /\ op = "Move") =>
        HoldsOriginal(Source) \/ HoldsOriginal(Destination)

(***************************************************************************)
(* doWrite when write keeps returning 0.  In Spec the writes of fewer      *)
(* bytes than asked, those of no byte included, are limited to MaxShort    *)
(* per call.  SpecRetry lifts the limit for the writes of no byte: each    *)
(* makes doWrite call itself again with the same data and datalen.         *)
(***************************************************************************)
\* frames doWrite may nest before it can no longer return
MaxDepth == 3

\* write calls made by doWrite for the chunk in hand: one per nested call
RetryDepth ==
    LET reads == Idx("read")
        last  == IF reads = {} THEN 0
                 ELSE CHOOSE i \in reads : \A j \in reads : j <= i
    IN  Cardinality({i \in Idx("write") : i > last})

\* write returns 0 and doWrite recurses on the whole of what is left,
\* main.cc:193-195.  After MaxDepth calls that is taken to go on for ever:
\* the recursion exhausts the stack when it is compiled as calls
\* (CFLAGS_Debug, -O0) and repeats without end when it is compiled as a
\* jump (CFLAGS_Release, -O3); in both doWrite does not return.
doWriteZero ==
    /\ pc = "write"
    /\ Len(buffer) > 0
    /\ shorts >= MaxShort
    /\ Logged(Ev("write", 0, 0))
    /\ buffer' = doWriteRest(buffer, 0)
    /\ pc' = IF RetryDepth + 1 < MaxDepth THEN "write" ELSE "no_return"
    /\ UNCHANGED <<argVars, fsVars, fds, statVars, inOff, outOff, bytes_read,
                   progress, sinceLastUpdate, errno, envVars>>

NextRetry == Next \/ doWriteZero

SpecRetry == Init /\ [][NextRetry]_vars

(***************************************************************************)
(* C14: every started Copy or Move runs to completion, also when write     *)
(* calls return 0: doWrite always returns, the call always goes on until   *)
(* the entry point has returned, and it does not return without having     *)
(* called the completion callback.                                         *)
(***************************************************************************)
C14_RunsToCompletion ==
    ValidArgs =>
        /\ pc # "no_return"
        /\ pc = "returned" \/ ENABLED NextRetry
        /\ pc = "returned" => Completions # {}

(***************************************************************************)
(* The copy engine on files of real size.  Spec follows the bytes of small *)
(* files with a buffer of BufLen bytes.  SpecSizes follows the byte counts *)
(* only, with the buffer of main.cc: it starts where Copy(path) enters the *)
(* engine (main.cc:273), srcLen is the length of the source as the reads   *)
(* find it, outOff the bytes written, and data is not followed.            *)
(***************************************************************************)
\* #define BUFFER_SIZE 16384, main.cc:158
BUFFER_SIZE == 16384

\* reads and writes of fewer bytes than asked happen up to this offset only
MaxShortOff == 2

\* st_size of the source: empty, below and at 100 bytes, a few bytes per
\* update, around one buffer, and many buffers with bytesPerUpdate below
\* and above BUFFER_SIZE
FileSizes ==
    {0, 1, 99, 100, 250, BUFFER_SIZE, BUFFER_SIZE + 1, 1000000, 3300000}

InitSizes ==
    /\ op = "Copy"
    /\ argv \in {<<"a", "b", "fn">>, <<"a", "b", "fn", "fn">>}
    /\ pc = "read"
    /\ Source = "a" /\ Destination = "b"
    /\ UpdateProgress = (Len(argv) = 4) /\ ProgressCallback = UpdateProgress
    /\ ResultCallback = TRUE /\ threw = FALSE
    /\ inputSize \in FileSizes
    /\ dstDev = 1
    \* the destination is a new file, or a link to the source, which
    \* open(..., O_TRUNC) has then emptied after fstat gave inputSize
    /\ \E linked \in BOOLEAN :
        /\ srcLen = IF linked THEN 0 ELSE inputSize
        /\ dir = [p \in Paths |->
                    IF p = "a" THEN SrcIno
                    ELSE IF p = "b" THEN (IF linked THEN SrcIno ELSE NewIno)
                    ELSE NoFile]
        /\ fds = [f \in {"in", "out"} |->
                    [state |-> "open",
                     ino |-> IF f = "in" \/ linked THEN SrcIno ELSE NewIno]]
    /\ data = [i \in Inodes |-> <<>>]
    /\ in_dev = 1 /\ out_dev = 0 /\ removeWhenDone = FALSE
    /\ inOff = 0 /\ outOff = 0 /\ buffer = <<>> /\ bytes_read = 0
    /\ progress = 0 /\ sinceLastUpdate = 0
    /\ errno = "OK"
    /\ log = <<Ev("open", "in", TRUE), Ev("fstat", "in", TRUE),
               Ev("open", "out", TRUE)>>
    /\ shorts = 0

\* bytes the source still holds past the offset of fd_in
AvailSizes == IF srcLen > inOff THEN srcLen - inOff ELSE 0

\* results of read(fd_in, buffer, sizeof(buffer))
ReadResultsSizes ==
    {-1, Min(BUFFER_SIZE, AvailSizes)}
        \cup {k \in 1..ShortLen : /\ k < Min(BUFFER_SIZE, AvailSizes)
                                  /\ shorts < MaxShort
                                  /\ inOff <= MaxShortOff}

\* while ((bytes_read = read(...)) > 0), and the test after the loop,
\* main.cc:212 and 226
ReadSizes ==
    /\ pc = "read"
    /\ \E r \in ReadResultsSizes :
        /\ bytes_read' = r
        /\ Logged(Ev("read", r, 0))
        /\ IF r > 0
           THEN /\ inOff' = inOff + r
                /\ shorts' = IF r < Min(BUFFER_SIZE, AvailSizes)
                             THEN shorts + 1 ELSE shorts
                /\ pc' = "write"
                /\ UNCHANGED errno
           ELSE /\ errno' = IF r = -1 THEN "EIO" ELSE errno
                /\ pc' = IF r = -1 THEN "err_close_in" ELSE "final_progress"
                /\ UNCHANGED <<inOff, shorts>>
    /\ UNCHANGED <<argVars, fsVars, fds, statVars, outOff, buffer, progress,
                   sinceLastUpdate, srcLen, dstDev>>

\* bytes of the chunk read that doWrite has still to write
Pending == inOff - outOff

\* results of write(fd, data, datalen)
WriteResultsSizes(datalen) ==
    {-1, datalen}
        \cup {k \in 0..ShortLen : /\ k < datalen
                                  /\ shorts < MaxShort
                                  /\ outOff <= MaxShortOff}

\* one write call of doWrite, main.cc:190-197; a short write recurses on
\* the rest
doWriteSizes ==
    /\ pc = "write"
    /\ \E written \in WriteResultsSizes(Pending) :
        /\ Logged(Ev("write", written, 0))
        /\ IF written = -1
           THEN /\ errno' = "ENOSPC"
                /\ pc' = "err_close_in"
                /\ UNCHANGED <<outOff, shorts>>
           ELSE /\ outOff' = outOff + written
                /\ shorts' = IF written < Pending THEN shorts + 1 ELSE shorts
                /\ pc' = IF written < Pending THEN "write" ELSE "account"
                /\ UNCHANGED errno
    /\ UNCHANGED <<argVars, fsVars, fds, statVars, inOff, buffer, bytes_read,
                   progress, sinceLastUpdate, srcLen, dstDev>>

NextSizes ==
    \/ ReadSizes
    \/ doWriteSizes
    \/ Account
    \/ FinalProgress
    \/ CopyCloseIn
    \/ Fsync
    \/ CopyCloseOut
    \/ CopyComplete
    \/ ErrorCloseIn
    \/ ErrorCloseOut
    \/ ErrorRemove
    \/ CopySendError
    \/ Return

SpecSizes == InitSizes /\ [][NextSizes]_vars

(***************************************************************************)
(* Claims about the progress accounting on files of real size.             *)
(***************************************************************************)
\* the threshold T of the notifications
Threshold == inputSize \div 100

\* `done` of the last notification sent so far, 0 when there is none
LastDone == IF Progresses = {} THEN 0 ELSE log[LastProgress][2]

\* the step that follows a written chunk sends the notification (done, total)
Notifies(done, total) == log' = Append(log, Ev("progress", done, total))

\* C16 as stated: after a chunk is written a notification is emitted exactly
\* when the bytes accumulated since the last one exceed T, whether or not a
\* progress callback was given.
C16_Original ==
    [][pc = "account" =>
          (sinceLastUpdate + bytes_read > Threshold
              <=> Notifies(progress + bytes_read, inputSize))]_vars

(***************************************************************************)
(* C16: with T = floor(totalSize / 100), after a chunk is written the      *)
(* accumulator is reset to 0 exactly when the bytes accumulated since the  *)
(* last reset are strictly greater than T, and is otherwise kept; with a   *)
(* progress callback a notification (done, totalSize) is emitted exactly   *)
(* then, and without one none is emitted.  Consecutive in-loop `done`      *)
(* values differ by more than T and by at most T + 16384, and when         *)
(* totalSize < 100 every non-empty read produces a notification.           *)
(***************************************************************************)
C16_ProgressThrottling ==
    [][pc = "account" =>
          LET acc  == sinceLastUpdate + bytes_read
              done == progress + bytes_read
          IN  /\ acc > Threshold => sinceLastUpdate' = 0
              /\ acc <= Threshold => sinceLastUpdate' = acc /\ log' = log
              /\ UpdateProgress =>
                    /\ acc > Threshold <=> Notifies(done, inputSize)
                    /\ acc > Threshold =>
                          /\ done - LastDone > Threshold
                          /\ done - LastDone <= Threshold + 16384
                    /\ (inputSize < 100 /\ bytes_read > 0) =>
                          Notifies(done, inputSize)
              /\ ~UpdateProgress => log' = log]_vars

\* a chunk was written without a notification after an earlier chunk had
\* produced one, and a later chunk has produced the next
C16_Witness ==
    /\ UpdateProgress
    /\ pc = "read"
    /\ Threshold > 0
    /\ \E i, j \in Progresses, w \in Idx("write") :
          /\ i < w /\ w + 1 < j
          /\ log[w + 1][1] = "read"
          /\ log[j][2] - log[i][2] > Threshold
          /\ \A k \in Progresses : ~(i < k /\ k < j)

\* the reads of the log, in order
ReadIdx == Idx("read")
\* the k-th read (from 0) when every read returns min(16384, bytes remaining)
FullRead(k) ==
    IF inputSize - k * 16384 <= 0 THEN 0
    ELSE Min(16384, inputSize - k * 16384)
\* every read returned min(16384, bytes remaining) and no call failed
FullReadsNoFailure ==
    /\ errno = "OK"
    /\ \A i \in ReadIdx :
          log[i][2] = FullRead(Cardinality({j \in ReadIdx : j < i}))
    /\ \A i \in Idx("write") : log[i][2] # -1
\* the read/write iterations: the reads that returned bytes
Iterations == {i \in ReadIdx : log[i][2] > 0}
\* the read of 0 bytes that ends the loop
ZeroReads == {i \in ReadIdx : log[i][2] = 0}
\* ceil(n / d)
CeilDiv(n, d) == (n + d - 1) \div d

\* C17 as stated: one final (S, S) notification whether or not a progress
\* callback was given.
C17_Original ==
    (pc = "returned" /\ FullReadsNoFailure) =>
        \E z \in ZeroReads :
            /\ log[z + 1] = Ev("progress", inputSize, inputSize)
            /\ Cardinality(Iterations) = CeilDiv(inputSize, 16384)

(***************************************************************************)
(* C17: for a source of size S on which every read returns                 *)
(* min(16384, bytes remaining) and no call fails, Copy executes exactly    *)
(* ceil(S / 16384) read/write iterations before the read of 0 bytes that   *)
(* ends the loop, then, when a progress callback was given, emits one      *)
(* final (S, S) notification whatever the accumulator holds (and none when *)
(* no progress callback was given), and then delivers the completion       *)
(* (null, true).                                                           *)
(***************************************************************************)
C17_IterationsAndFinalProgress ==
    (pc = "returned" /\ FullReadsNoFailure) =>
        /\ Cardinality(Iterations) = CeilDiv(inputSize, 16384)
        /\ Cardinality(ZeroReads) = 1
        /\ \A z \in ZeroReads :
              /\ \A i \in Iterations : i < z
              /\ \A i \in Iterations : log[i + 1][1] = "write"
              /\ LET after == {i \in Progresses : i > z}
                 IN  IF UpdateProgress
                     THEN /\ after = {z + 1}
                          /\ log[z + 1] = Ev("progress", inputSize, inputSize)
                     ELSE Progresses = {}
              /\ \E c \in Completions :
                    /\ c > z
                    /\ IsSuccess(log[c])
                    /\ \A i \in Progresses : i < c
        /\ Cardinality(Completions) = 1

\* 1,000,000 bytes copied in 62 iterations with a progress callback, the
\* last chunk of 576 bytes having stayed below the threshold
C17_Witness ==
    /\ pc = "returned"
    /\ FullReadsNoFailure
    /\ UpdateProgress
    /\ inputSize = 1000000
    /\ sinceLastUpdate = 576
    /\ Cardinality(Iterations) = 62
    /\ Succeeded

====
